---- MODULE Spec2Model ----
(***************************************************************************)
(* Model of get_usernames_get_info.py: the Reddit comment collector.       *)
(*                                                                         *)
(* One process, started in mode "single" or "batch".  The state is the     *)
(* module-level seen_users set, the checkpoint file seen_usernames.json,   *)
(* the rotation cursors, the locals of run_single / run_batch and the      *)
(* position of every fetch_user_job running in the thread pool.            *)
(*                                                                         *)
(* The checkpoint file is modelled as a sequence of JSON tokens: "[", one  *)
(* token per user name, "]".  open(path, "w") truncates it, closing the    *)
(* handle writes the buffered text at offset 0 without truncating again.   *)
(***************************************************************************)
EXTENDS Integers, Sequences, FiniteSets, TLC

\* ---------- bounds of the model ----------
MaxClients  == 2      \* largest number of entries of reddit_credentials.json
MaxCycles   == 2      \* run_batch calls over the lifetime of the checkpoint
MaxRestarts == 1      \* process restarts over the lifetime of the checkpoint

\* ---------- program constants ----------
BATCH_SIZE == 3       \* BATCH_SIZE (50 in the source, scaled down)
FT_THRESHOLD == 7     \* FT_THRESHOLD (0.7 in the source, in tenths)

\* author names the feed may offer; "users" is a name like any other
Users == {"alice", "users"}

\* order of the user names under sorted()
Rank(u) == CASE u = "alice" -> 1 [] OTHER -> 2

VARIABLES
    mode,          \* args.mode
    nclients,      \* len(reddit_clients)
    seen_users,    \* the module-level set
    seen_file,     \* seen_usernames.json: [exists, data]
    reddit_cycle,  \* next index the module-level cycle returns
    single_cycle,  \* next index run_single's cycle returns
    pc,            \* position of the main thread
    fresh,         \* run_batch: fresh
    jobs,          \* run_batch: jobs with the position of each; run_single: the current iteration
    submitted,     \* run_batch: number of jobs handed to exe.submit
    collected,     \* run_batch: futures already yielded by as_completed
    all_users,     \* run_batch: all_users (user names of the rows)
    all_comments,  \* run_batch: all_comments (user names of the row blocks)
    artifacts,     \* parquet files written by the current cycle / iteration
    exit_cause,    \* why the process is not running
    abort_job,     \* the job whose exception left the as_completed loop (0: none)
    fetch_started, \* history: identities a fetch was started for
    committed,     \* history: identities for which save_seen returned after their add
    feed_picks,    \* history: the indices next(reddit_cycle) returned
    single_picks,  \* history: the indices next(single_cycle) returned
    cycles,        \* history: run_batch calls so far
    restarts,      \* history: process restarts so far
    mid_restart,   \* history: a restart happened in the middle of a cycle
    data_dir,      \* consolidation script: the files of DATA_DIR in os.listdir order
    merge_exit,    \* consolidation script: how its last run ended
    item,          \* process_user_comments: the comment and what the two models say of it
    row,           \* process_user_comments: the row appended to out
    enrich_exit    \* process_user_comments: how the call ended

vars == <<mode, nclients, seen_users, seen_file, reddit_cycle, single_cycle,
          pc, fresh, jobs, submitted, collected, all_users, all_comments,
          artifacts, exit_cause, abort_job, fetch_started, committed, feed_picks,
          single_picks, cycles, restarts, mid_restart,
          data_dir, merge_exit, item, row, enrich_exit>>

\* the state of the two stand-alone parts, which the collector loop never touches
tools == <<data_dir, merge_exit, item, row, enrich_exit>>

hist == <<fetch_started, committed, cycles, restarts, mid_restart>>

\* ---------- pure helpers ----------
Min(S) == CHOOSE u \in S : \A v \in S : Rank(u) <= Rank(v)

RECURSIVE SortedSeq(_)
\* sorted(seen_users)
SortedSeq(S) == IF S = {} THEN <<>> ELSE <<Min(S)>> \o SortedSeq(S \ {Min(S)})

\* json.dump of a list of names, as tokens
Dump(s) == <<"[">> \o s \o <<"]">>

\* the handle of open(path, "w"): the file exists and is empty
OpenW == [exists |-> TRUE, data |-> <<>>]

\* closing the handle writes buf at offset 0; bytes beyond it stay
Overlay(old, buf) ==
    IF Len(buf) >= Len(old) THEN buf
    ELSE buf \o SubSeq(old, Len(buf) + 1, Len(old))

\* json.load succeeds on the file
WellFormed(f) ==
    /\ f.exists
    /\ Len(f.data) >= 2
    /\ f.data[1] = "["
    /\ f.data[Len(f.data)] = "]"
    /\ \A k \in 2..(Len(f.data) - 1) : f.data[k] \in Users

\* set(json.load(f))
Parse(f) == {f.data[k] : k \in 2..(Len(f.data) - 1)}

\* next() of cycle(enumerate(reddit_clients, start=1))
\* ---------- history of a rotation cursor ----------
\* k: the number of next() calls so far, modulo the number of clients;
\* win: the indices returned by the last (at most nclients) calls
NoPicks == [k |-> 0, win |-> <<>>]

LastN(w) == IF Len(w) > nclients THEN Tail(w) ELSE w

Picked(p, i) == [k |-> (p.k + 1) % nclients, win |-> LastN(Append(p.win, i))]

\* a cursor that wraps one position late
NextIdxLate(i) == IF i > nclients THEN 1 ELSE i + 1

\* the index after i in cycle(enumerate(reddit_clients, start=1))
NextIdx(i) == IF i >= nclients THEN 1 ELSE i + 1

RECURSIVE ZipCycle(_, _)
\* list(zip(cycle(range(1, n + 1)), names)), the cycle standing at i
ZipCycle(i, names) ==
    IF names = <<>> THEN <<>>
    ELSE <<[idx |-> i, uname |-> Head(names), pc |-> "queued", buf |-> <<>>,
            at |-> "none", fetched |-> FALSE]>>
         \o ZipCycle(NextIdx(i), Tail(names))

Running == {j \in DOMAIN jobs : jobs[j].pc \in {"fetch", "mark", "open", "flush"}}
Finished == {j \in DOMAIN jobs : jobs[j].pc \in {"ok", "none", "raised"}}

Alive == pc # "dead"

\* ---------- startup ----------
\* DATA_DIR is empty and the consolidation script has not run
NoMerge ==
    /\ data_dir = <<>>
    /\ merge_exit = "not_run"

\* process_user_comments has not been called
NoEnrich ==
    /\ item = <<>>
    /\ row = <<>>
    /\ enrich_exit = "not_run"

\* the collector on a fresh install
InitCollector ==
    /\ mode \in {"single", "batch"}
    /\ nclients \in 1..MaxClients
    /\ seen_users = {}
    /\ seen_file = [exists |-> FALSE, data |-> <<>>]
    /\ reddit_cycle = 1
    /\ single_cycle = 1
    /\ pc = IF mode = "single" THEN "s_stream" ELSE "pause"
    /\ fresh = <<>>
    /\ jobs = <<>>
    /\ submitted = 0
    /\ collected = {}
    /\ all_users = <<>>
    /\ all_comments = <<>>
    /\ artifacts = <<>>
    /\ exit_cause = "none"
    /\ abort_job = 0
    /\ fetch_started = {}
    /\ committed = {}
    /\ feed_picks = NoPicks
    /\ single_picks = NoPicks
    /\ cycles = 0
    /\ restarts = 0
    /\ mid_restart = FALSE

Init ==
    /\ InitCollector
    /\ NoMerge
    /\ NoEnrich


\* ---------- helpers on the job list ----------
SetPc(j, v) == [jobs EXCEPT ![j].pc = v]
Raise(j, where) == [jobs EXCEPT ![j].pc = "raised", ![j].at = where]

\* the process ends with an uncaught exception
Die(cause) ==
    /\ pc' = "dead"
    /\ exit_cause' = cause

\* ---------- main(): batch loop ----------
\* main: while True: run_batch(); the locals of run_batch are created
StartCycle ==
    /\ mode = "batch"
    /\ pc = "pause"
    /\ cycles < MaxCycles
    /\ cycles' = cycles + 1
    /\ pc' = "collect"
    /\ fresh' = <<>>
    /\ jobs' = <<>>
    /\ submitted' = 0
    /\ collected' = {}
    /\ all_users' = <<>>
    /\ all_comments' = <<>>
    /\ artifacts' = <<>>
    /\ abort_job' = 0
    /\ UNCHANGED <<mode, nclients, tools, seen_users, seen_file, reddit_cycle, feed_picks,
                   single_cycle, single_picks,
                   exit_cause, fetch_started, committed, restarts, mid_restart>>

\* while len(fresh) < BATCH_SIZE: idx, client = next(reddit_cycle)
NextClient ==
    /\ pc = "collect"
    /\ Len(fresh) < BATCH_SIZE
    /\ reddit_cycle' = NextIdx(reddit_cycle)
    /\ feed_picks' = Picked(feed_picks, reddit_cycle)
    /\ pc' = "stream"
    /\ UNCHANGED <<mode, nclients, tools, seen_users, seen_file, single_cycle, single_picks, fresh,
                   jobs,
                   submitted, collected, all_users, all_comments, artifacts, exit_cause,
                   abort_job, hist>>

\* the stream yields None (pause_after=-1): break
FeedPause ==
    /\ pc = "stream"
    /\ pc' = "collect"
    /\ UNCHANGED <<mode, nclients, tools, seen_users, seen_file, reddit_cycle, feed_picks,
                   single_cycle, single_picks, fresh,
                   jobs, submitted, collected, all_users, all_comments, artifacts, exit_cause,
                   abort_job, hist>>

\* a feed loop that leaves the stream only once the list is longer than a batch
FeedCommentLate(a) ==
    /\ pc = "stream"
    /\ IF a \in Users /\ a \notin seen_users
       THEN /\ fresh' = Append(fresh, a)
            /\ pc' = IF Len(fresh') > BATCH_SIZE THEN "collect" ELSE "stream"
       ELSE UNCHANGED <<fresh, pc>>
    /\ UNCHANGED <<mode, nclients, tools, seen_users, seen_file, reddit_cycle, feed_picks,
                   single_cycle, single_picks,
                   jobs, submitted, collected, all_users, all_comments, artifacts, exit_cause,
                   abort_job, hist>>

\* the stream yields a comment of author a (NoAuthor: c.author is None)
FeedComment(a) ==
    /\ pc = "stream"
    /\ IF a \in Users /\ a \notin seen_users
       THEN /\ fresh' = Append(fresh, a)
            /\ pc' = IF Len(fresh') >= BATCH_SIZE THEN "collect" ELSE "stream"
       ELSE UNCHANGED <<fresh, pc>>
    /\ UNCHANGED <<mode, nclients, tools, seen_users, seen_file, reddit_cycle, feed_picks,
                   single_cycle, single_picks,
                   jobs, submitted, collected, all_users, all_comments, artifacts, exit_cause,
                   abort_job, hist>>

\* the stream raises prawcore.exceptions.ResponseException: time.sleep(1)
FeedResponseException ==
    /\ pc = "stream"
    /\ pc' = "backoff"
    /\ UNCHANGED <<mode, nclients, tools, seen_users, seen_file, reddit_cycle, feed_picks,
                   single_cycle, single_picks, fresh,
                   jobs, submitted, collected, all_users, all_comments, artifacts, exit_cause,
                   abort_job, hist>>

\* time.sleep(1) is over: back to the head of the while loop
Backoff ==
    /\ pc = "backoff"
    /\ pc' = "collect"
    /\ UNCHANGED <<mode, nclients, tools, seen_users, seen_file, reddit_cycle, feed_picks,
                   single_cycle, single_picks, fresh,
                   jobs, submitted, collected, all_users, all_comments, artifacts, exit_cause,
                   abort_job, hist>>

\* the stream raises an exception that is not a ResponseException (transport error)
FeedOtherException ==
    /\ pc = "stream"
    /\ Die("feed")
    /\ UNCHANGED <<mode, nclients, tools, seen_users, seen_file, reddit_cycle, feed_picks,
                   single_cycle, single_picks, fresh,
                   jobs, submitted, collected, all_users, all_comments, artifacts,
                   abort_job, hist>>

\* a job list zipped against the module-level cursor instead of a new cycle
BuildJobListShared(names) == ZipCycle(reddit_cycle, names)

\* the job list a batch is dispatched with
BuildJobList(names) == ZipCycle(1, names)

\* the while loop ends: jobs = list(zip(cycle(range(1, n + 1)), fresh))
BuildJobs ==
    /\ pc = "collect"
    /\ Len(fresh) >= BATCH_SIZE
    /\ jobs' = BuildJobList(fresh)
    /\ pc' = "submit"
    /\ UNCHANGED <<mode, nclients, tools, seen_users, seen_file, reddit_cycle, feed_picks,
                   single_cycle, single_picks, fresh,
                   submitted, collected, all_users, all_comments, artifacts, exit_cause,
                   abort_job, hist>>

\* futures = {exe.submit(fetch_user_job, job): job for job in jobs}, one job
Submit ==
    /\ pc = "submit"
    /\ submitted < Len(jobs)
    /\ submitted' = submitted + 1
    /\ pc' = IF submitted' = Len(jobs) THEN "gather" ELSE "submit"
    /\ UNCHANGED <<mode, nclients, tools, seen_users, seen_file, reddit_cycle, feed_picks,
                   single_cycle, single_picks, fresh,
                   jobs, collected, all_users, all_comments, artifacts, exit_cause,
                   abort_job, hist>>


\* ---------- fetch_user_job, one step of one worker thread ----------
mainvars == <<mode, nclients, tools, reddit_cycle, feed_picks, single_cycle, single_picks, fresh,
              submitted, collected,
              all_users, all_comments, artifacts, abort_job>>

\* a pool thread takes the oldest queued job; the pool has len(reddit_clients) threads
StartJob(j) ==
    /\ mode = "batch" /\ Alive
    /\ j \in 1..submitted
    /\ jobs[j].pc = "queued"
    /\ \A k \in 1..(j - 1) : jobs[k].pc # "queued"
    /\ Cardinality(Running) < nclients
    /\ jobs' = SetPc(j, "fetch")
    /\ fetch_started' = fetch_started \cup {jobs[j].uname}
    /\ UNCHANGED <<mainvars, pc, exit_cause, seen_users, seen_file, committed, cycles,
                   restarts, mid_restart>>

\* u = client.redditor(uname); raw_comments = list(u.comments.new(...)) returns,
\* user_row is built (u.created_utc, ...) and the comments are processed
FetchOk(j) ==
    /\ mode = "batch" /\ Alive
    /\ j \in DOMAIN jobs /\ jobs[j].pc = "fetch"
    /\ jobs' = [jobs EXCEPT ![j].pc = "mark", ![j].fetched = TRUE]
    /\ UNCHANGED <<mainvars, pc, exit_cause, seen_users, seen_file, hist>>

\* a failing job that marks its identity before it returns None
FetchFailMarks(j) ==
    /\ mode = "batch" /\ Alive
    /\ j \in DOMAIN jobs /\ jobs[j].pc = "fetch"
    /\ jobs' = SetPc(j, "none")
    /\ seen_users' = seen_users \cup {jobs[j].uname}
    /\ UNCHANGED <<mainvars, pc, exit_cause, seen_file, hist>>

\* the listing of the comments raises: except Exception: return None
FetchFail(j) ==
    /\ mode = "batch" /\ Alive
    /\ j \in DOMAIN jobs /\ jobs[j].pc = "fetch"
    /\ jobs' = SetPc(j, "none")
    /\ UNCHANGED <<mainvars, pc, exit_cause, seen_users, seen_file, hist>>

\* the comments were listed, reading the profile attributes (u.created_utc, ...)
\* raises, outside the try block: the exception is stored in the future
MetaFail(j) ==
    /\ mode = "batch" /\ Alive
    /\ j \in DOMAIN jobs /\ jobs[j].pc = "fetch"
    /\ jobs' = Raise(j, "meta")
    /\ UNCHANGED <<mainvars, pc, exit_cause, seen_users, seen_file, hist>>

\* seen_users.add(uname)
Mark(j) ==
    /\ Alive
    /\ j \in DOMAIN jobs /\ jobs[j].pc = "mark"
    /\ seen_users' = seen_users \cup {jobs[j].uname}
    /\ jobs' = SetPc(j, "open")
    /\ UNCHANGED <<mainvars, pc, exit_cause, seen_file, hist>>

\* save_seen: open(SEEN_USERS_FILE, "w") truncates the file and json.dump puts
\* sorted(seen_users) into the buffer of the handle.  The dump only reads
\* seen_users and writes the thread's own buffer, so it commutes with every file
\* operation of the other threads and is taken in one step with the open.
OpenOk(j) ==
    /\ Alive
    /\ j \in DOMAIN jobs /\ jobs[j].pc = "open"
    /\ seen_file' = OpenW
    /\ jobs' = [jobs EXCEPT ![j].pc = "flush", ![j].buf = Dump(SortedSeq(seen_users))]
    /\ UNCHANGED <<mainvars, pc, exit_cause, seen_users, hist>>

\* where a job goes once save_seen has returned
AfterSave == IF mode = "batch" THEN "ok" ELSE "s_meta"

\* save_seen: the with block closes the handle, the buffer reaches the file;
\* in single mode the fetch of the user starts next
FlushOk(j) ==
    /\ Alive
    /\ j \in DOMAIN jobs /\ jobs[j].pc = "flush"
    /\ seen_file' = [exists |-> TRUE, data |-> Overlay(seen_file.data, jobs[j].buf)]
    /\ jobs' = [jobs EXCEPT ![j].pc = AfterSave, ![j].buf = <<>>]
    /\ fetch_started' = IF mode = "single"
                        THEN fetch_started \cup {jobs[j].uname} ELSE fetch_started
    /\ committed' = committed \cup {jobs[j].uname}
    /\ UNCHANGED <<mainvars, pc, exit_cause, seen_users, cycles, restarts, mid_restart>>

\* save_seen raises OSError, at open (where = "open") or at the write (where = "flush");
\* in batch mode the future holds the exception, in single mode it ends the process
SaveFail(j, where) ==
    /\ Alive
    /\ j \in DOMAIN jobs /\ jobs[j].pc = where
    /\ where \in {"open", "flush"}
    /\ jobs' = [jobs EXCEPT ![j].pc = "raised", ![j].at = where, ![j].buf = <<>>]
    /\ IF mode = "single" THEN Die("persist") ELSE UNCHANGED <<pc, exit_cause>>
    /\ UNCHANGED <<mainvars, seen_users, seen_file, hist>>

\* ---------- run_batch: collecting the results ----------
jobstate == <<mode, nclients, tools, seen_users, seen_file, reddit_cycle, feed_picks, single_cycle,
              single_picks, fresh, jobs,
              submitted>>

\* as_completed yields the future of job j; res = fut.result()
Gather(j) ==
    /\ pc = "gather"
    /\ j \in Finished \ collected
    /\ collected' = collected \cup {j}
    /\ CASE jobs[j].pc = "ok" ->
              /\ all_users' = Append(all_users, jobs[j].uname)
              /\ all_comments' = Append(all_comments, jobs[j].uname)
              /\ UNCHANGED <<pc, abort_job>>
         [] jobs[j].pc = "none" ->
              UNCHANGED <<all_users, all_comments, pc, abort_job>>
         [] OTHER ->
              /\ pc' = "aborting"
              /\ abort_job' = j
              /\ UNCHANGED <<all_users, all_comments>>
    /\ UNCHANGED <<jobstate, artifacts, exit_cause, hist>>

\* every future was yielded: the with block of the executor is left
GatherDone ==
    /\ pc = "gather"
    /\ collected = DOMAIN jobs
    /\ pc' = "save_users"
    /\ UNCHANGED <<jobstate, collected, all_users, all_comments, artifacts, exit_cause,
                   abort_job, hist>>

\* fut.result() raised: the executor's __exit__ waits for every job, then the
\* exception leaves run_batch and main
AbortWait ==
    /\ pc = "aborting"
    /\ Finished = DOMAIN jobs
    /\ Die(IF jobs[abort_job].at = "meta" THEN "job" ELSE "persist")
    /\ UNCHANGED <<jobstate, collected, all_users, all_comments, artifacts, abort_job, hist>>

\* save_parquet(data, prefix) wrote its file; ts is the strftime timestamp, counted
\* in seconds from the first write of the cycle (cycles are separated by a sleep)
Artifact(prefix, ts, rows) == [prefix |-> prefix, ts |-> ts, rows |-> rows]

\* filename = f"{prefix}_{ts}.parquet"
FileName(a) == a.prefix \o <<"_", a.ts, ".parquet">>

\* the seconds that may have passed between two writes of one cycle
Elapsed == {0, 1}

\* save_parquet(all_users, "users"); ok = FALSE: the write raises
SaveUsers(ok) ==
    /\ pc = "save_users"
    /\ IF ok THEN /\ artifacts' = Append(artifacts, Artifact(<<"users">>, 0, all_users))
                  /\ pc' = "save_comments"
                  /\ UNCHANGED exit_cause
             ELSE /\ Die("persist")
                  /\ UNCHANGED artifacts
    /\ UNCHANGED <<jobstate, collected, all_users, all_comments, abort_job, hist>>

\* save_parquet(all_comments, f"batch_{len(all_comments)}"), dt seconds after the
\* users file; run_batch returns
SaveComments(ok, dt) ==
    /\ pc = "save_comments"
    /\ IF ok THEN /\ artifacts' = Append(artifacts,
                         Artifact(<<"batch_", Len(all_comments)>>, dt, all_comments))
                  /\ pc' = "pause"
                  /\ UNCHANGED exit_cause
             ELSE /\ Die("persist")
                  /\ UNCHANGED artifacts
    /\ UNCHANGED <<jobstate, collected, all_users, all_comments, abort_job, hist>>

\* ---------- run_single ----------
singlefixed == <<mode, nclients, tools, seen_users, seen_file, reddit_cycle, feed_picks, fresh,
                 submitted,
                 collected, all_users, all_comments, abort_job>>

NoAuthor == "<none>"

\* the stream yields a comment of author a; a fresh author starts an iteration
SingleFeed(a) ==
    /\ mode = "single"
    /\ pc = "s_stream"
    /\ IF a \in Users /\ a \notin seen_users
       THEN /\ jobs' = <<[idx |-> single_cycle, uname |-> a, pc |-> "mark",
                          buf |-> <<>>, at |-> "none", fetched |-> FALSE]>>
            /\ single_cycle' = NextIdx(single_cycle)
            /\ single_picks' = Picked(single_picks, single_cycle)
            /\ pc' = "s_iter"
            /\ artifacts' = <<>>
       ELSE UNCHANGED <<jobs, single_cycle, single_picks, pc, artifacts>>
    /\ UNCHANGED <<singlefixed, exit_cause, hist>>

\* the stream raises: nothing in run_single catches it
SingleFeedException ==
    /\ mode = "single"
    /\ pc = "s_stream"
    /\ Die("feed")
    /\ UNCHANGED <<singlefixed, jobs, single_cycle, single_picks, artifacts, hist>>

\* u = client.redditor(uname); user_row = {...}; ok = FALSE: the read raises
SingleMeta(ok) ==
    /\ mode = "single" /\ pc = "s_iter"
    /\ jobs[1].pc = "s_meta"
    /\ IF ok THEN /\ jobs' = SetPc(1, "s_save_users")
                  /\ UNCHANGED <<pc, exit_cause>>
             ELSE /\ jobs' = Raise(1, "meta")
                  /\ Die("job")
    /\ UNCHANGED <<singlefixed, single_cycle, single_picks, artifacts, hist>>

\* save_parquet([user_row], "users")
SingleSaveUsers(ok) ==
    /\ mode = "single" /\ pc = "s_iter"
    /\ jobs[1].pc = "s_save_users"
    /\ IF ok THEN /\ jobs' = SetPc(1, "s_comments")
                  /\ artifacts' = Append(artifacts, Artifact(<<"users">>, 0, <<jobs[1].uname>>))
                  /\ UNCHANGED <<pc, exit_cause>>
             ELSE /\ jobs' = Raise(1, "save_users")
                  /\ Die("persist")
                  /\ UNCHANGED artifacts
    /\ UNCHANGED <<singlefixed, single_cycle, single_picks, hist>>

\* raw = list(...comments.new(...)); comment_rows = process_user_comments(uname, raw)
SingleComments(ok) ==
    /\ mode = "single" /\ pc = "s_iter"
    /\ jobs[1].pc = "s_comments"
    /\ IF ok THEN /\ jobs' = [jobs EXCEPT ![1].pc = "s_save_comments", ![1].fetched = TRUE]
                  /\ UNCHANGED <<pc, exit_cause>>
             ELSE /\ jobs' = Raise(1, "comments")
                  /\ Die("job")
    /\ UNCHANGED <<singlefixed, single_cycle, single_picks, artifacts, hist>>

\* save_parquet(comment_rows, uname), dt seconds after the users file
SingleSaveComments(ok, dt) ==
    /\ mode = "single" /\ pc = "s_iter"
    /\ jobs[1].pc = "s_save_comments"
    /\ IF ok THEN /\ jobs' = SetPc(1, "s_sleep")
                  /\ artifacts' = Append(artifacts,
                         Artifact(<<jobs[1].uname>>, dt, <<jobs[1].uname>>))
                  /\ UNCHANGED <<pc, exit_cause>>
             ELSE /\ jobs' = Raise(1, "save_comments")
                  /\ Die("persist")
                  /\ UNCHANGED artifacts
    /\ UNCHANGED <<singlefixed, single_cycle, single_picks, hist>>

\* time.sleep(SLEEP_SECONDS) is over: the next comment of the stream
SingleSleep ==
    /\ mode = "single" /\ pc = "s_iter"
    /\ jobs[1].pc = "s_sleep"
    /\ jobs' = <<>>
    /\ pc' = "s_stream"
    /\ UNCHANGED <<singlefixed, single_cycle, single_picks, artifacts, exit_cause, hist>>

\* ---------- the process stops and is started again ----------
Idle == pc \in {"pause", "s_stream"}

\* the process is killed: its memory is gone, the files stay
Crash ==
    /\ Alive
    /\ restarts < MaxRestarts
    /\ pc' = "dead"
    /\ exit_cause' = IF Idle THEN "killed_idle" ELSE "killed"
    /\ seen_users' = {}
    /\ reddit_cycle' = 1
    /\ single_cycle' = 1
    /\ feed_picks' = NoPicks
    /\ single_picks' = NoPicks
    /\ fresh' = <<>>
    /\ jobs' = <<>>
    /\ submitted' = 0
    /\ collected' = {}
    /\ all_users' = <<>>
    /\ all_comments' = <<>>
    /\ abort_job' = 0
    /\ artifacts' = <<>>
    /\ UNCHANGED <<mode, nclients, tools, seen_file, hist>>

\* seen_users as the module computes it at import
LoadSeen(f) == IF f.exists THEN Parse(f) ELSE {}

\* the module is imported again and main runs in mode m
Restart(m) ==
    /\ pc = "dead"
    /\ restarts < MaxRestarts
    /\ restarts' = restarts + 1
    /\ mid_restart' = (mid_restart \/ exit_cause # "killed_idle")
    /\ mode' = m
    /\ reddit_cycle' = 1
    /\ single_cycle' = 1
    /\ feed_picks' = NoPicks
    /\ single_picks' = NoPicks
    /\ fresh' = <<>>
    /\ jobs' = <<>>
    /\ submitted' = 0
    /\ collected' = {}
    /\ all_users' = <<>>
    /\ all_comments' = <<>>
    /\ artifacts' = <<>>
    /\ abort_job' = 0
    /\ IF seen_file.exists /\ ~WellFormed(seen_file)
       THEN \* json.load raises at import
            /\ pc' = "dead"
            /\ exit_cause' = "startup"
            /\ seen_users' = {}
       ELSE /\ pc' = IF m = "single" THEN "s_stream" ELSE "pause"
            /\ exit_cause' = "none"
            /\ seen_users' = LoadSeen(seen_file)
    /\ UNCHANGED <<nclients, tools, seen_file, fetch_started, committed, cycles>>

\* ---------- the system ----------
Next ==
    \/ StartCycle
    \/ NextClient
    \/ FeedPause
    \/ \E a \in Users \cup {NoAuthor} : FeedComment(a)
    \/ FeedResponseException
    \/ Backoff
    \/ FeedOtherException
    \/ BuildJobs
    \/ Submit
    \/ \E j \in 1..BATCH_SIZE : StartJob(j)
    \/ \E j \in 1..BATCH_SIZE : FetchOk(j)
    \/ \E j \in 1..BATCH_SIZE : FetchFail(j)
    \/ \E j \in 1..BATCH_SIZE : MetaFail(j)
    \/ \E j \in 1..BATCH_SIZE : Mark(j)
    \/ \E j \in 1..BATCH_SIZE : OpenOk(j)
    \/ \E j \in 1..BATCH_SIZE : FlushOk(j)
    \/ \E j \in 1..BATCH_SIZE, where \in {"open", "flush"} : SaveFail(j, where)
    \/ \E j \in 1..BATCH_SIZE : Gather(j)
    \/ GatherDone
    \/ AbortWait
    \/ \E ok \in BOOLEAN : SaveUsers(ok)
    \/ \E ok \in BOOLEAN, dt \in Elapsed : SaveComments(ok, dt)
    \/ \E a \in Users \cup {NoAuthor} : SingleFeed(a)
    \/ SingleFeedException
    \/ \E ok \in BOOLEAN : SingleMeta(ok)
    \/ \E ok \in BOOLEAN : SingleSaveUsers(ok)
    \/ \E ok \in BOOLEAN : SingleComments(ok)
    \/ \E ok \in BOOLEAN, dt \in Elapsed : SingleSaveComments(ok, dt)
    \/ SingleSleep
    \/ Crash
    \/ \E m \in {"single", "batch"} : Restart(m)

Spec == Init /\ [][Next]_vars


\* ---------- helpers/mergin_all_files_deduplicated.py ----------
collector == <<mode, nclients, seen_users, seen_file, reddit_cycle, feed_picks, single_cycle,
               single_picks, pc, fresh, jobs, submitted, collected, all_users, all_comments,
               artifacts, exit_cause, abort_job, hist>>

OUTPUT_FILE == <<"all_comments_merged", ".parquet">>

\* a cell of a column the row's file does not have
NaN == "NaN"

CommentIds == {"c1", "c2"}

\* the columns of a comment row that matter here: "username", "comment_id"
CommentRow(u, c) == [username |-> u, comment_id |-> c]

\* a row of a users file: it has no identifier of a comment
UserRow(u) == [username |-> u, client_idx |-> 1]

\* a row of a parquet file that has an "id" column; the collector writes none
IdRow(c) == [id |-> c]

\* what one file of DATA_DIR may hold
FileRows ==
    {<<CommentRow("alice", c)>> : c \in CommentIds}
        \cup {<<CommentRow("alice", c), CommentRow("alice", d)>> : c, d \in CommentIds}
        \cup {<<UserRow("alice")>>, <<IdRow("c1")>>}

\* a directory of n files, named f1.parquet ... fn.parquet
DataDirs(n) ==
    {[k \in 1..n |-> [name |-> <<"f", k, ".parquet">>, rows |-> rs[k]]] :
        rs \in [1..n -> FileRows]}

\* f.endswith(".parquet") and f != "all_comments_merged.parquet"
IsInput(f) == f.name[Len(f.name)] = ".parquet" /\ f.name # OUTPUT_FILE

ListFiles(dir) == SelectSeq(dir, IsInput)

RECURSIVE AllRows(_)
AllRows(files) ==
    IF files = <<>> THEN <<>> ELSE Head(files).rows \o AllRows(Tail(files))

Columns(rows) == UNION {DOMAIN rows[k] : k \in DOMAIN rows}

\* pd.concat(dfs, ignore_index=True): the union of the columns, NaN where a file has none
Concat(files) ==
    LET rows == AllRows(files)
        cols == Columns(rows)
    IN  [k \in DOMAIN rows |->
            [c \in cols |-> IF c \in DOMAIN rows[k] THEN rows[k][c] ELSE NaN]]

\* df.drop_duplicates(subset=[col]): the first row of every value is kept, and
\* missing values count as equal
RECURSIVE KeepFirst(_, _, _)
KeepFirst(rows, col, had) ==
    IF rows = <<>> THEN <<>>
    ELSE IF Head(rows)[col] \in had THEN KeepFirst(Tail(rows), col, had)
    ELSE <<Head(rows)>> \o KeepFirst(Tail(rows), col, had \cup {Head(rows)[col]})

DropDuplicates(rows, col) == KeepFirst(rows, col, {})

\* pq.write_table(table, OUTPUT_FILE): the file is replaced, or created
WriteOutput(dir, rows) ==
    IF \E k \in DOMAIN dir : dir[k].name = OUTPUT_FILE
    THEN [k \in DOMAIN dir |->
             IF dir[k].name = OUTPUT_FILE THEN [dir[k] EXCEPT !.rows = rows] ELSE dir[k]]
    ELSE Append(dir, [name |-> OUTPUT_FILE, rows |-> rows])

\* one run of the script
RunMerge ==
    /\ LET files == ListFiles(data_dir)
           df == Concat(files)
       IN  IF files = <<>>
           THEN \* exit(1)
                /\ merge_exit' = "exit_1"
                /\ UNCHANGED data_dir
           ELSE IF "id" \notin Columns(df)
           THEN \* drop_duplicates raises KeyError: nothing is written
                /\ merge_exit' = "KeyError"
                /\ UNCHANGED data_dir
           ELSE /\ merge_exit' = "done"
                /\ data_dir' = WriteOutput(data_dir, DropDuplicates(df, "id"))
    /\ UNCHANGED <<collector, item, row, enrich_exit>>

MaxFiles == 2

InitMerge ==
    /\ InitCollector
    /\ mode = "batch" /\ nclients = 1
    /\ NoEnrich
    /\ merge_exit = "not_run"
    /\ data_dir \in UNION {DataDirs(n) : n \in 0..MaxFiles}

NextMerge == RunMerge

SpecMerge == InitMerge /\ [][NextMerge]_vars


\* ---------- process_user_comments: one comment ----------
\* a text is a sequence of tokens: a lower-case word, a word with capitals, a URL,
\* a newline, a space; tokens that follow each other have no whitespace between
Tokens == {"w", "W", "url", "nl", "sp"}

Whitespace == {"nl", "sp"}

MaxBody == 2

Bodies == UNION {[1..n -> Tokens] : n \in 0..MaxBody}

\* c.body: None, or a text
CommentBodies ==
    {[none |-> TRUE, text |-> <<>>]} \cup {[none |-> FALSE, text |-> b] : b \in Bodies}

\* body = c.body or ""
OrEmpty(b) == IF b.none THEN <<>> ELSE b.text

\* _URL_RE.sub("", text): the match runs on to the next whitespace
RECURSIVE RemoveUrls(_, _)
RemoveUrls(t, in_url) ==
    IF t = <<>> THEN <<>>
    ELSE IF Head(t) = "url" THEN RemoveUrls(Tail(t), TRUE)
    ELSE IF in_url /\ Head(t) \notin Whitespace THEN RemoveUrls(Tail(t), TRUE)
    ELSE <<Head(t)>> \o RemoveUrls(Tail(t), FALSE)

\* .replace("\n", " ")
ReplaceNewlines(t) == [k \in DOMAIN t |-> IF t[k] = "nl" THEN "sp" ELSE t[k]]

RECURSIVE LStrip(_)
LStrip(t) ==
    IF t # <<>> /\ Head(t) \in Whitespace THEN LStrip(Tail(t)) ELSE t

RECURSIVE RStrip(_)
RStrip(t) ==
    IF t # <<>> /\ t[Len(t)] \in Whitespace THEN RStrip(SubSeq(t, 1, Len(t) - 1)) ELSE t

\* .strip()
Strip(t) == RStrip(LStrip(t))

clean_text(text) == Strip(ReplaceNewlines(RemoveUrls(text, FALSE)))

\* .lower()
Lower(t) == [k \in DOMAIN t |-> IF t[k] = "W" THEN "w" ELSE t[k]]

\* what ft_model.predict may return: something that is not a pair, a pair of empty
\* lists, or one label with its score (in tenths)
FtResults ==
    {[pair |-> FALSE, labels |-> <<>>, scores |-> <<>>],
     [pair |-> TRUE, labels |-> <<>>, scores |-> <<>>]}
        \cup {[pair |-> TRUE, labels |-> <<(<<"__label__", l>>)>>, scores |-> <<sc>>] :
                 l \in {"en", "es"}, sc \in {FT_THRESHOLD - 1, FT_THRESHOLD, FT_THRESHOLD + 1}}

\* str(labels[0]).replace("__label__", "")
Iso(label) == SelectSeq(label, LAMBDA x : x # "__label__")[1]

detect_lang(text, ft) ==
    LET cleaned == Lower(clean_text(text))
    IN  IF cleaned = <<>> THEN "unknown"
        ELSE IF ~ft.pair THEN "unknown"
        ELSE IF ft.labels = <<>> \/ ft.scores = <<>> THEN "unknown"
        ELSE IF ft.scores[1] >= FT_THRESHOLD THEN Iso(ft.labels[1]) ELSE "unknown"

Labels == {"negative", "neutral", "positive"}

\* the classifier's label strings
RawLabels == {"Negative", "Neutral", "Positive"}

\* entry["label"].lower()
LowerLabel(l) ==
    CASE l = "Negative" -> "negative"
      [] l = "Neutral" -> "neutral"
      [] l = "Positive" -> "positive"
      [] OTHER -> l

\* what sent_pipe may return: nothing, the three labels with a score each, or an
\* entry without a label
FullScores == {[label |-> "Negative", score |-> 1], [label |-> "Neutral", score |-> 2],
               [label |-> "Positive", score |-> 7]}

SentResults ==
    {[empty |-> TRUE, scores |-> {}],
     [empty |-> FALSE, scores |-> FullScores],
     [empty |-> FALSE, scores |-> {[label |-> "<missing>", score |-> 7]}]}

\* the value of the "sentiment" key: None, or a dict given by its items
NoSentiment == [kind |-> "None", items |-> {}]

Dict(items) == [kind |-> "dict", items |-> items]

Malformed(result) == \E e \in result.scores : e.label \notin RawLabels

\* classify_sentiment, where no entry raises
classify_sentiment(result) ==
    IF result.empty THEN Dict({})
    ELSE Dict({<<LowerLabel(e.label), e.score>> : e \in result.scores})

\* the loop body of process_user_comments for the comment in item
ProcessComment ==
    /\ enrich_exit = "not_run"
    /\ LET body == OrEmpty(item.body)
           clean_body == clean_text(body)
           lang == detect_lang(clean_body, item.ft)
       IN  IF lang = "en" /\ clean_body # <<>>
           THEN IF ~item.sent.empty /\ Malformed(item.sent)
                THEN \* entry["label"] raises KeyError
                     /\ enrich_exit' = "KeyError"
                     /\ UNCHANGED row
                ELSE /\ enrich_exit' = "ok"
                     /\ row' = [body_clean |-> clean_body, language |-> lang,
                                sentiment |-> classify_sentiment(item.sent)]
           ELSE /\ enrich_exit' = "ok"
                /\ row' = [body_clean |-> clean_body, language |-> lang,
                           sentiment |-> NoSentiment]
    /\ UNCHANGED <<collector, data_dir, merge_exit, item>>

InitEnrich ==
    /\ InitCollector
    /\ mode = "batch" /\ nclients = 1
    /\ NoMerge
    /\ item \in [body : CommentBodies, ft : FtResults, sent : SentResults]
    /\ row = <<>>
    /\ enrich_exit = "not_run"

NextEnrich == ProcessComment

SpecEnrich == InitEnrich /\ [][NextEnrich]_vars


\* ---------- properties ----------
Batch == mode = "batch"

\* the job has executed seen_users.add
Marked(j) ==
    \/ jobs[j].pc \in {"open", "flush", "ok"}
    \/ jobs[j].pc = "raised" /\ jobs[j].at \in {"open", "flush"}

\* in this step job j starts the fetch of its identity
FetchStarts(j) ==
    /\ j \in DOMAIN jobs /\ j \in DOMAIN jobs'
    /\ jobs'[j].uname = jobs[j].uname
    /\ \/ jobs[j].pc = "queued" /\ jobs'[j].pc = "fetch"
       \/ jobs[j].pc = "flush" /\ jobs'[j].pc = "s_meta"

\* C1: as long as no restart happened in the middle of a cycle, a fetch is only
\* started for an identity no fetch was started for before, over the lifetime
\* of the checkpoint.
C1_AtMostOneFetchPerIdentity ==
    [][\A j \in 1..BATCH_SIZE :
          (~mid_restart /\ FetchStarts(j)) => jobs[j].uname \notin fetch_started]_vars

\* C2: in batch mode no two jobs that are running at the same time carry the
\* same credential index.
C2_CredentialExclusive ==
    Batch => \A j \in Running : \A k \in Running : j # k => jobs[j].idx # jobs[k].idx

\* C3: in batch mode the as_completed loop is never left because of a job whose
\* fetch (comment listing or profile read) threw: the cycle goes on to flush.
C3_FetchFailureDoesNotAbortCycle ==
    (Batch /\ abort_job # 0) => jobs[abort_job].at # "meta"

\* C4: the list released for dispatch in batch mode holds no identity twice.
C4_ReleasedListHasNoDuplicate ==
    Batch => \A j \in DOMAIN jobs : \A k \in DOMAIN jobs :
                 j # k => jobs[j].uname # jobs[k].uname

\* C5: in both modes, while the process runs, an identity enters seen_users only
\* by a job whose fetch has already completed successfully.
C5_SeenOnlyAfterSuccessfulFetch ==
    [][Alive => \A u \in seen_users' \ seen_users :
                   \E j \in DOMAIN jobs :
                       jobs[j].uname = u /\ jobs[j].pc = "mark" /\ jobs[j].fetched]_vars

\* C6: a batch job that returns the failure result changes neither seen_users
\* nor the checkpoint file in that step, and an identity of a failed job is in
\* seen_users only when another job of the batch for the same identity marked it.
C6_FailStepFrame ==
    \A j \in DOMAIN jobs :
        (Batch /\ jobs[j].pc = "fetch" /\ j \in DOMAIN jobs' /\ jobs'[j].pc = "none")
            => (seen_users' = seen_users /\ seen_file' = seen_file)

C6_FailedNotMarked ==
    \A j \in DOMAIN jobs :
        (Batch /\ jobs[j].pc = "none" /\ jobs[j].uname \in seen_users)
            => \E k \in DOMAIN jobs : k # j /\ jobs[k].uname = jobs[j].uname /\ Marked(k)

C6_FailedFetchLeavesCheckpoint ==
    [][C6_FailStepFrame]_vars /\ []C6_FailedNotMarked

\* C6 witness: the process has run without interruption into its second cycle,
\* and an identity fetched in the first cycle whose jobs all returned None (it
\* is not in seen_users) is admitted to fresh again.
C6_Witness ==
    /\ Batch /\ pc = "stream" /\ cycles = 2 /\ restarts = 0
    /\ \E k \in DOMAIN fresh : fresh[k] \in fetch_started /\ fresh[k] \notin seen_users

\* C7: in batch mode the job at 0-indexed position k carries credential index
\* (k mod N) + 1, whatever the feed cursor and the outcome of other jobs.
C7_RoundRobinAssignment ==
    Batch => \A k \in DOMAIN jobs : jobs[k].idx = ((k - 1) % nclients) + 1

\* C7 witness: a full batch on two credentials, the feed cursor not at 1, a
\* later job finished while an earlier one failed and another is still running.
C7_Witness ==
    /\ Batch /\ nclients = 2 /\ reddit_cycle = 2
    /\ Len(jobs) = BATCH_SIZE
    /\ jobs[1].pc = "none" /\ jobs[2].pc = "fetch" /\ jobs[3].pc = "ok"

\* C8: once every job of a batch cycle has finished and was collected, the
\* checkpoint file holds exactly the sorted in-memory seen set.
C8_FileIsSortedSeenAfterCycle ==
    (Batch /\ pc \in {"save_users", "save_comments", "pause"} /\ Len(all_users) > 0)
        => seen_file = [exists |-> TRUE, data |-> Dump(SortedSeq(seen_users))]

\* C9: after save_seen failed while committing identity i, i is in seen_users
\* if and only if it is in the checkpoint file.
C9_NoDivergenceAfterFailedWrite ==
    \A j \in DOMAIN jobs :
        (jobs[j].pc = "raised" /\ jobs[j].at \in {"open", "flush"})
            => (jobs[j].uname \in seen_users
                  <=> (WellFormed(seen_file) /\ jobs[j].uname \in Parse(seen_file)))

\* C10: the process never ends because of a per-identity fetch error or an
\* error of the live feed, in either mode.
C10_NoExitOnJobOrFeedFailure ==
    exit_cause \notin {"job", "feed"}

\* C11: an identity whose checkpoint commit completed is in the seen set of
\* every later run of the process: the next startup succeeds and loads it, so it
\* is never admitted again.
C11_CommittedSurvivesRestart ==
    \A u \in committed : exit_cause # "startup" /\ (Alive => u \in seen_users)

\* C15: in batch mode nothing is submitted while the feed is still being read,
\* the list never grows past BATCH_SIZE, and the list released for dispatch has
\* exactly BATCH_SIZE entries, the accumulated names in their order.
Accumulating == pc \in {"collect", "stream", "backoff"}

C15_BatchThreshold ==
    Batch =>
        /\ Len(fresh) <= BATCH_SIZE
        /\ Accumulating => (submitted = 0 /\ jobs = <<>>)
        /\ submitted <= Len(jobs)
        /\ jobs # <<>> =>
              /\ Len(jobs) = BATCH_SIZE
              /\ Len(fresh) = BATCH_SIZE
              /\ \A k \in DOMAIN jobs : jobs[k].uname = fresh[k]

\* a second cycle, filled over several feed rounds with a transient feed error
\* behind it, has released its full list and every job is submitted
C15_Witness ==
    /\ Batch /\ pc = "gather" /\ cycles = 2 /\ nclients = 2 /\ reddit_cycle = 1
    /\ submitted = BATCH_SIZE /\ Len(jobs) = BATCH_SIZE

\* C16: during a batch cycle at most nclients jobs are in flight, and when the
\* cycle is over (other than by a persistence failure) every submitted job has
\* been collected and there is one buffered user row per job that succeeded.
CycleOver == jobs # <<>> /\ pc \in {"save_users", "save_comments", "pause", "dead"}

Succeeded == {j \in DOMAIN jobs : jobs[j].pc = "ok"}

C16_BoundedAndCompleteCollection ==
    Batch =>
        /\ Cardinality(Running) <= nclients
        /\ (CycleOver /\ exit_cause # "persist") =>
              /\ collected = DOMAIN jobs
              /\ Len(all_users) = Cardinality(Succeeded)

\* C17: each rotation cursor returns 1, 2, ..., nclients, 1, ...: the k-th index
\* returned since the process started is ((k - 1) mod nclients) + 1, and the last
\* nclients indices returned are all the clients, each once. The feed cursor is
\* not reset between batch cycles, and no failure of a fetch or a feed read moves it.
Last(w) == w[Len(w)]

InRotation(p) ==
    /\ p.win # <<>> => Last(p.win) = ((p.k + nclients - 1) % nclients) + 1
    /\ Len(p.win) = nclients =>
          /\ {p.win[i] : i \in DOMAIN p.win} = 1..nclients
          /\ \A i, j \in DOMAIN p.win : i # j => p.win[i] # p.win[j]

C17_CyclicRotationCursor ==
    /\ InRotation(feed_picks)
    /\ InRotation(single_picks)
    /\ (mode = "single" /\ jobs # <<>>) => jobs[1].idx = Last(single_picks.win)

\* the third feed selection, made in the second cycle after a first cycle in which
\* no fetch succeeded
C17_Witness ==
    /\ Batch /\ nclients = 2 /\ cycles = 2 /\ pc = "stream"
    /\ feed_picks = [k |-> 1, win |-> <<2, 1>>]
    /\ fetch_started # {} /\ seen_users = {}

\* C18: when a batch cycle has ended without the process being killed (run_batch
\* returned, or an exception left it), every identity the cycle committed to the
\* checkpoint has its row in the users artifact the cycle wrote, and that artifact
\* has no row for an identity outside the checkpoint.
UsersRows ==
    UNION {{artifacts[i].rows[k] : k \in DOMAIN artifacts[i].rows} :
             i \in {a \in DOMAIN artifacts : artifacts[a].prefix = <<"users">>}}

C18_NoCommitWithoutFlushedOutput ==
    (Batch /\ jobs # <<>> /\ pc \in {"pause", "dead"}) =>
        /\ \A j \in Succeeded : jobs[j].uname \in UsersRows
        /\ \A u \in UsersRows : u \in seen_users

\* C19: batch mode never stops cycling as long as the feed keeps offering authors
\* and every fetch call returns, with a result or with an exception. Its finite
\* part: a batch process stops only when it is killed, when a feed read raises,
\* when a write of the checkpoint or of an artifact fails, or when the checkpoint
\* cannot be loaded at startup; a fetch call that returns with an exception is
\* never the reason.
StopsAllowed == {"none", "killed", "killed_idle", "feed", "persist", "startup"}

C19_BatchNeverStoppedByFetch ==
    Batch => exit_cause \in StopsAllowed

\* C12: no two writes of the output sink target the same file name, whatever the
\* identity is called and however close in time the writes are.
C12_NoArtifactOverwritten ==
    \A i, j \in DOMAIN artifacts : i # j => FileName(artifacts[i]) # FileName(artifacts[j])

\* C13: after the consolidation script has run over a non-empty set of artifacts,
\* its output file exists and holds exactly one row for every comment identifier
\* that occurs in the artifacts.
Merged == SelectSeq(data_dir, LAMBDA f : f.name = OUTPUT_FILE)

ItemIds(rows) ==
    {rows[k].comment_id : k \in {i \in DOMAIN rows : "comment_id" \in DOMAIN rows[i]}} \ {NaN}

C13_OneRowPerContentItem ==
    (merge_exit # "not_run" /\ ListFiles(data_dir) # <<>>) =>
        /\ merge_exit = "done"
        /\ Merged # <<>>
        /\ \A c \in ItemIds(AllRows(ListFiles(data_dir))) :
              Cardinality({k \in DOMAIN Merged[1].rows :
                               "comment_id" \in DOMAIN Merged[1].rows[k]
                               /\ Merged[1].rows[k].comment_id = c}) = 1

\* C14: every comment gets a row; its sentiment is either absent or a mapping
\* over all the labels, never an empty or partial mapping; it is a mapping exactly
\* when the language is "en" and the cleaned text is not empty and the classifier
\* gave a full result; an empty cleaned text has language "unknown".
FullMapping(sm) == sm.kind = "dict" /\ {p[1] : p \in sm.items} = Labels

C14_LanguageGate ==
    enrich_exit # "not_run" =>
        /\ enrich_exit = "ok"
        /\ FullMapping(row.sentiment) \/ row.sentiment = NoSentiment
        /\ FullMapping(row.sentiment) =>
              (row.language = "en" /\ row.body_clean # <<>>)
        /\ (row.language = "en" /\ row.body_clean # <<>> /\ item.sent.scores = FullScores) =>
              FullMapping(row.sentiment)
        /\ row.body_clean = <<>> => row.language = "unknown"

====
